---- MODULE Spec2Model ----
(***************************************************************************)
(* A model of the go-updater library: the abortable write targets          *)
(* (AbortBuffer, FileBuffer, DelayedFile), the filesystem calls they make, *)
(* and the Updater that streams release assets into them.                  *)
(***************************************************************************)
EXTENDS Integers, Sequences, FiniteSets, TLC

\* ------------------------------------------------------------------ bounds
\* The largest number of bytes a writer is allowed to hold.
MaxLen == 3
\* The largest number of assets of a release.
MaxAssets == 2

\* ------------------------------------------------------------ vocabulary
Nil == "nil"
\* The bytes a destination file holds before the program touches it.
OldData == <<0>>
\* The byte slices callers pass to Write.
Chunks == {<<1>>, <<2>>, <<1, 2>>}
\* Seeds of NewAbortBuffer.
Seeds == {<<>>, <<0>>}

\* The caller's destination, the file ioutil.TempFile allocates, and a path in
\* a directory that does not exist.
DestPath == "dest"
TempPath == "tmp"
NoDirPath == "nodir"
NoPath == ""
Paths == {DestPath, TempPath}

Absent == [exists |-> FALSE, data |-> <<>>, mode |-> "none"]
OldFile == [exists |-> TRUE, data |-> OldData, mode |-> "0755"]

Kinds == {"AbortBuffer", "FileBuffer", "DelayedFile"}

\* The goroutines that call Write on one FileBuffer.
Threads == {"g1", "g2"}
\* No goroutine is inside Write.
ThreadsIdle ==
  [pc |-> [t \in Threads |-> "idle"], b |-> [t \in Threads |-> <<>>],
   saw |-> [t \in Threads |-> "none"], mu |-> Nil]

\* Commit identifiers a tag reference resolves to.
Shas == {"sha1", "sha2"}
\* A nil Release.
NilRelease == [nil |-> TRUE]
\* The bytes asset i serves; io.Copy moves them one byte per Read.
AssetBody(i) == IF i = 1 THEN <<1, 2>> ELSE <<i + 1>>
\* The assets a release listing can carry: the first n of the repository's
\* assets, the last of them without a download URL when url = FALSE.
AssetList(n, url) == [i \in 1..n |-> [name |-> i, url |-> (url \/ i < n), body |-> AssetBody(i)]]
AssetLists == {AssetList(0, TRUE), AssetList(MaxAssets, TRUE), AssetList(MaxAssets, FALSE)}
\* What ListReleases can answer: an error, or the releases, newest first.
ReleaseLists == {<<>>, <<[tag |-> Nil, assets |-> <<>>]>>, <<[tag |-> "v1", assets |-> AssetList(MaxAssets, TRUE)], [tag |-> "v0", assets |-> <<>>]>>}
ListFailed == [err |-> "listErr", releases |-> <<>>]
Listings == {[err |-> Nil, releases |-> l] : l \in ReleaseLists} \cup {ListFailed}
\* Releases a caller can hand to UpdateTo or a test App can report.
Releases == {[nil |-> FALSE, tag |-> "v1", sha |-> s, assets |-> a] : s \in Shas, a \in AssetLists}

VARIABLES
  kind,      \* dynamic type of the AbortWriter w the program works with
  fs,        \* the filesystem: path -> [exists, data, mode]
  buffer,    \* FileBuffer fields: the FileBuffer itself, or DelayedFile.buffer
  df,        \* DelayedFile fields: path, aborted
  ab,        \* AbortBuffer fields: Buffer, aborted
  panicked,  \* a Go panic unwound the calling goroutine
  u,         \* Updater fields: CurrentReleaseIdentifier
  app,       \* the App: its type and, for a githubApp, its releases
  upd,       \* where a running UpdateTo is: [pc, release, i, j]
  ret,       \* the last call: [op, n, err, rel, latest, calls, cleanup]: what it
             \* returned, what App.LatestRelease answered it, and the
             \* collaborator calls (Query, WriterForAsset, ...) it made
  th,        \* goroutines that share the FileBuffer: per goroutine where its
             \* Write is (pc), the slice it writes (b) and the outcome of the
             \* one-time open it went on with (saw); and the holder of the
             \* mutex of a.opener (mu)
  hist,      \* history of w: the slices of the Write calls that returned
             \* no error, concatenated, whether a Write returned one, and
             \* the number of times the FileBuffer opened its file
  respBody   \* resp.Body of the last http.Get of the UpdateTo that runs or
             \* ran last: "none" (no response yet, or http.Get failed),
             \* "open" or "closed"

vars == <<kind, fs, buffer, df, ab, panicked, u, app, upd, ret, th, hist, respBody>>

\* ------------------------------------------------------------- os calls
\* A create that gives the file the default mode even when it exists.
osCreate_ResetMode(files, p, ok) ==
  IF p \notin Paths THEN [fs |-> files, err |-> "ENOENT"]
  ELSE IF ~ok THEN [fs |-> files, err |-> "EACCES"]
  ELSE [fs |-> [files EXCEPT ![p] = [exists |-> TRUE, data |-> <<>>, mode |-> "0666"]],
        err |-> Nil]

\* An os.Create that keeps the bytes of an existing file.
osCreate_NoTruncate(files, p, ok) ==
  IF p \notin Paths THEN [fs |-> files, err |-> "ENOENT"]
  ELSE IF ~ok THEN [fs |-> files, err |-> "EACCES"]
  ELSE [fs |-> [files EXCEPT ![p] = [exists |-> TRUE, data |-> files[p].data,
                  mode |-> IF files[p].exists THEN files[p].mode ELSE "0666"]],
        err |-> Nil]

\* os.Create: O_RDWR|O_CREATE|O_TRUNC, mode 0666 for a new file; an existing
\* file is truncated and keeps its mode.  ok = FALSE is an injected failure
\* (permission denied, too many open files, ...).
osCreate(files, p, ok) ==
  IF p \notin Paths THEN [fs |-> files, err |-> "ENOENT"]
  ELSE IF ~ok THEN [fs |-> files, err |-> "EACCES"]
  ELSE [fs |-> [files EXCEPT ![p] = [exists |-> TRUE, data |-> <<>>,
                  mode |-> IF files[p].exists THEN files[p].mode ELSE "0666"]],
        err |-> Nil]

\* os.Open for reading.
osOpen(files, p) ==
  IF p \in Paths /\ files[p].exists THEN Nil ELSE "ENOENT"

\* os.Remove.
osRemove(files, p) ==
  IF p \in Paths /\ files[p].exists
  THEN [fs |-> [files EXCEPT ![p] = Absent], err |-> Nil]
  ELSE [fs |-> files, err |-> "ENOENT"]

\* os.Stat(p).Mode(), or nil when there is no file to stat.
osStat(files, p) == IF p \in Paths /\ files[p].exists THEN files[p].mode ELSE Nil

\* os.Rename(src, dst): dst becomes the file src was, bytes and mode.
osRename(files, src, dst, ok) ==
  IF ~(src \in Paths /\ files[src].exists) THEN [fs |-> files, err |-> "ENOENT"]
  ELSE IF dst \notin Paths THEN [fs |-> files, err |-> "ENOENT"]
  ELSE IF ~ok THEN [fs |-> files, err |-> "EXDEV"]
  ELSE [fs |-> [files EXCEPT ![dst] = files[src], ![src] = Absent], err |-> Nil]

\* os.Chmod(p, mode).
osChmod(files, p, mode, ok) ==
  IF ~(p \in Paths /\ files[p].exists) THEN [fs |-> files, err |-> "ENOENT"]
  ELSE IF ~ok THEN [fs |-> files, err |-> "EPERM"]
  ELSE [fs |-> [files EXCEPT ![p].mode = mode], err |-> Nil]

\* ioutil.TempFile("", "atomic-"): a fresh file of mode 0600.
ioutilTempFile(files, ok) ==
  IF ok
  THEN [fs |-> [files EXCEPT ![TempPath] = [exists |-> TRUE, data |-> <<>>, mode |-> "0600"]],
        name |-> TempPath, err |-> Nil]
  ELSE [fs |-> files, name |-> NoPath, err |-> "EMFILE"]

\* A write that puts the new bytes before the old ones.
fileWrite_Prepend(handle, files, p, b, k) ==
  IF handle = "closed" THEN [fs |-> files, n |-> 0, err |-> "EBADF"]
  ELSE [fs |-> IF p \in Paths /\ files[p].exists
               THEN [files EXCEPT ![p].data = SubSeq(b, 1, k) \o @]
               ELSE files,
        n |-> k,
        err |-> IF k = Len(b) THEN Nil ELSE "EIO"]

\* (*os.File).Write of b through an open or closed handle on path p; k bytes
\* reach the file before the write fails (k = Len(b): no failure).  A handle
\* whose path was unlinked writes to an inode no path names.
fileWrite(handle, files, p, b, k) ==
  IF handle = "closed" THEN [fs |-> files, n |-> 0, err |-> "EBADF"]
  ELSE [fs |-> IF p \in Paths /\ files[p].exists
               THEN [files EXCEPT ![p].data = @ \o SubSeq(b, 1, k)]
               ELSE files,
        n |-> k,
        err |-> IF k = Len(b) THEN Nil ELSE "EIO"]

\* A Close of a handle that accepts being called again.
fileClose_Idempotent(handle) ==
  IF handle \in {"open", "closed"} THEN [handle |-> "closed", err |-> Nil]
  ELSE [handle |-> handle, err |-> "EBADF"]

\* (*os.File).Close: a second Close of the same handle fails.
fileClose(handle) ==
  IF handle = "open" THEN [handle |-> "closed", err |-> Nil]
  ELSE [handle |-> handle, err |-> "EBADF"]

\* ------------------------------------------------------------ FileBuffer
NewFileBuffer(path) ==
  [Path |-> path, opener |-> FALSE, openError |-> Nil, handle |-> Nil, aborted |-> FALSE]

\* a.opener.Do(func) of FileBuffer.Write: the function runs unless the Once
\* is done; opened tells whether it ran (one ioutil.TempFile or os.Create
\* call).  With an empty Path a failed TempFile leaves a.handle nil and
\* a.handle.Name() panics; the Once is done all the same.
openerDo(buf, files, ok) ==
  IF buf.opener THEN [buffer |-> buf, fs |-> files, panic |-> FALSE, opened |-> FALSE]
  ELSE IF buf.Path = NoPath
  THEN LET t == ioutilTempFile(files, ok) IN
       IF t.err = Nil
       THEN [buffer |-> [buf EXCEPT !.opener = TRUE, !.handle = "open", !.Path = t.name],
             fs |-> t.fs, panic |-> FALSE, opened |-> TRUE]
       ELSE [buffer |-> [buf EXCEPT !.opener = TRUE, !.openError = t.err],
             fs |-> t.fs, panic |-> TRUE, opened |-> TRUE]
  ELSE LET c == osCreate(files, buf.Path, ok) IN
       [buffer |-> [buf EXCEPT !.opener = TRUE,
                               !.handle = IF c.err = Nil THEN "open" ELSE Nil,
                               !.openError = c.err],
        fs |-> c.fs, panic |-> FALSE, opened |-> TRUE]

\* FileBuffer.Write(b).  ok: whether the one-time open succeeds; k: the bytes
\* the handle accepts.
FileBufferWrite(buf, files, b, ok, k) ==
  IF buf.aborted
  THEN [buffer |-> buf, fs |-> files, n |-> 0, err |-> "aborted", panic |-> FALSE, opened |-> FALSE]
  ELSE LET o == openerDo(buf, files, ok) IN
       IF o.panic
       THEN [buffer |-> o.buffer, fs |-> o.fs, n |-> 0, err |-> "panic", panic |-> TRUE, opened |-> o.opened]
       ELSE IF o.buffer.openError # Nil
       THEN [buffer |-> o.buffer, fs |-> o.fs, n |-> 0, err |-> o.buffer.openError, panic |-> FALSE,
             opened |-> o.opened]
       ELSE LET w == fileWrite(o.buffer.handle, o.fs, o.buffer.Path, b, k) IN
            [buffer |-> o.buffer, fs |-> w.fs, n |-> w.n, err |-> w.err, panic |-> FALSE,
             opened |-> o.opened]

\* FileBuffer.Abort.
FileBufferAbort(buf) == [buf EXCEPT !.aborted = TRUE]

\* A Close that does not test the handle.
FileBufferClose_Unguarded(buf) ==
  LET c == fileClose(buf.handle) IN [buffer |-> [buf EXCEPT !.handle = c.handle], err |-> c.err]

\* FileBuffer.Close.
FileBufferClose(buf) ==
  IF buf.handle # Nil
  THEN LET c == fileClose(buf.handle) IN [buffer |-> [buf EXCEPT !.handle = c.handle], err |-> c.err]
  ELSE [buffer |-> buf, err |-> Nil]

\* ----------------------------------------------------------- DelayedFile
NewDelayedFile(path) == [path |-> path, aborted |-> FALSE]

\* A Write that goes straight to the destination instead of a staging file.
DelayedFileWrite_ToDestination(buf, files, b, ok, k) ==
  FileBufferWrite(IF buf.opener THEN buf ELSE [buf EXCEPT !.Path = DestPath], files, b, ok, k)

\* A Write that fails once the DelayedFile was aborted.
DelayedFileWrite_Gated(buf, files, b, ok, k) ==
  IF df.aborted
  THEN [buffer |-> buf, fs |-> files, n |-> 0, err |-> "aborted", panic |-> FALSE, opened |-> FALSE]
  ELSE FileBufferWrite(buf, files, b, ok, k)

\* DelayedFile.Write(b): forwarded to the internal FileBuffer.
DelayedFileWrite(buf, files, b, ok, k) == FileBufferWrite(buf, files, b, ok, k)

\* An Abort that flips the flag instead of setting it.
DelayedFileAbort_Toggle(f) == [f EXCEPT !.aborted = ~@]

\* DelayedFile.Abort.
DelayedFileAbort(f) == [f EXCEPT !.aborted = TRUE]

\* f.copier(dest, source), io.Copy by default: c bytes of the source reach the
\* destination before the copy fails (c = the source's length: no failure).
copier(files, dst, src, c) ==
  [fs |-> [files EXCEPT ![dst].data = @ \o SubSeq(files[src].data, 1, c)],
   err |-> IF c = Len(files[src].data) THEN Nil ELSE "copyError"]

\* A publish that does not report a failure of the copy.
closePublish_DropCopyError(f, buf, files, createOk, c) ==
  LET d == osCreate(files, f.path, createOk) IN
  IF d.err # Nil THEN [fs |-> d.fs, err |-> d.err]
  ELSE IF osOpen(d.fs, buf.Path) # Nil THEN [fs |-> d.fs, err |-> osOpen(d.fs, buf.Path)]
  ELSE [fs |-> copier(d.fs, f.path, buf.Path, c).fs, err |-> Nil]

\* The publish steps of DelayedFile.Close after the abort test: create the
\* destination, open the staging file, copy.
closePublish(f, buf, files, createOk, c) ==
  LET d == osCreate(files, f.path, createOk) IN
  IF d.err # Nil THEN [fs |-> d.fs, err |-> d.err]
  ELSE IF osOpen(d.fs, buf.Path) # Nil THEN [fs |-> d.fs, err |-> osOpen(d.fs, buf.Path)]
  ELSE copier(d.fs, f.path, buf.Path, c)

\* A Close that publishes without looking at the aborted flag.
DelayedFileClose_IgnoreAbort(f, buf, files, createOk, c) ==
  LET b == FileBufferClose(buf).buffer
      p == closePublish(f, b, files, createOk, c)
      r == osRemove(p.fs, b.Path)
  IN [buffer |-> b, fs |-> r.fs, err |-> p.err, removeErr |-> r.err]

\* A Close that removes the staging file only at its end, not deferred: the
\* early returns skip it.
DelayedFileClose_RemoveAtEnd(f, buf, files, createOk, c) ==
  LET b == FileBufferClose(buf).buffer
      p == IF f.aborted THEN [fs |-> files, err |-> Nil]
           ELSE closePublish(f, b, files, createOk, c)
      r == IF p.err = Nil THEN osRemove(p.fs, b.Path) ELSE [fs |-> p.fs, err |-> Nil]
  IN [buffer |-> b, fs |-> r.fs, err |-> p.err, removeErr |-> r.err]

\* A Close that returns the error of the deferred removal when that failed.
DelayedFileClose_SurfaceRemoveError(f, buf, files, createOk, c) ==
  LET b == FileBufferClose(buf).buffer
      p == IF f.aborted THEN [fs |-> files, err |-> Nil]
           ELSE closePublish(f, b, files, createOk, c)
      r == osRemove(p.fs, b.Path)
  IN [buffer |-> b, fs |-> r.fs, err |-> IF r.err # Nil THEN r.err ELSE p.err,
      removeErr |-> r.err]

\* DelayedFile.Close: close the staging handle, publish unless aborted, and
\* (deferred) remove the staging file.
DelayedFileClose(f, buf, files, createOk, c) ==
  LET b == FileBufferClose(buf).buffer
      p == IF f.aborted THEN [fs |-> files, err |-> Nil]
           ELSE closePublish(f, b, files, createOk, c)
      r == osRemove(p.fs, b.Path)
  IN [buffer |-> b, fs |-> r.fs, err |-> p.err, removeErr |-> r.err]

\* A renaming Close that gives the staging file the destination's mode
\* before it renames it.
DelayedFileCloseRename_ChmodFirst(f, buf, files, renameOk, chmodOk) ==
  LET b == FileBufferClose(buf).buffer
      mode == osStat(files, f.path)
      p == IF f.aborted THEN [fs |-> files, err |-> Nil]
           ELSE LET c == IF mode # Nil THEN osChmod(files, b.Path, mode, chmodOk)
                         ELSE [fs |-> files, err |-> Nil] IN
                IF c.err # Nil THEN c
                ELSE osRename(c.fs, b.Path, f.path, renameOk)
      r == osRemove(p.fs, b.Path)
  IN [buffer |-> b, fs |-> r.fs, err |-> p.err, removeErr |-> r.err]

\* DelayedFile.Close as it renames: close the staging handle, and unless
\* aborted stat the destination, rename the staging file over it and
\* re-apply the mode the destination had; the staging path is removed
\* (deferred) on every path.
DelayedFileCloseRename(f, buf, files, renameOk, chmodOk) ==
  LET b == FileBufferClose(buf).buffer
      mode == osStat(files, f.path)
      p == IF f.aborted THEN [fs |-> files, err |-> Nil]
           ELSE LET m == osRename(files, b.Path, f.path, renameOk) IN
                IF m.err # Nil THEN m
                ELSE IF mode # Nil THEN osChmod(m.fs, f.path, mode, chmodOk)
                ELSE [fs |-> m.fs, err |-> Nil]
      r == osRemove(p.fs, b.Path)
  IN [buffer |-> b, fs |-> r.fs, err |-> p.err, removeErr |-> r.err]

\* ----------------------------------------------------------- AbortBuffer
NewAbortBuffer(b) == [Buffer |-> b, aborted |-> FALSE]

\* A Write that does not test the aborted flag.
AbortBufferWrite_NoGate(a, b) ==
  [ab |-> [a EXCEPT !.Buffer = @ \o b], n |-> Len(b), err |-> Nil]

\* AbortBuffer.Write(b).
AbortBufferWrite(a, b) ==
  IF a.aborted THEN [ab |-> a, n |-> 0, err |-> "aborted"]
  ELSE [ab |-> [a EXCEPT !.Buffer = @ \o b], n |-> Len(b), err |-> Nil]

\* An Abort that also empties the buffer.
AbortBufferAbort_Reset(a) == [Buffer |-> <<>>, aborted |-> TRUE]

\* AbortBuffer.Abort.
AbortBufferAbort(a) == [a EXCEPT !.aborted = TRUE]

\* ------------------------------------------------------- the writer w
\* The bytes w holds where a reader can see them.
Staged ==
  IF kind = "AbortBuffer" THEN ab.Buffer
  ELSE IF buffer.Path \in Paths /\ fs[buffer.Path].exists THEN fs[buffer.Path].data
  ELSE <<>>

\* The staged prefixes the copy of Close can stop after.
CopyCounts == 0..Len(Staged)

\* w.Write(b) on the writer at hand: the next values of ab, buffer and fs, and
\* what the call returns.
WriterWrite(b, ok, k) ==
  IF kind = "AbortBuffer"
  THEN LET r == AbortBufferWrite(ab, b) IN
       [ab |-> r.ab, buffer |-> buffer, fs |-> fs, n |-> r.n, err |-> r.err, panic |-> FALSE,
        opened |-> FALSE]
  ELSE LET r == IF kind = "FileBuffer" THEN FileBufferWrite(buffer, fs, b, ok, k)
                ELSE DelayedFileWrite(buffer, fs, b, ok, k) IN
       [ab |-> ab, buffer |-> r.buffer, fs |-> r.fs, n |-> r.n, err |-> r.err, panic |-> r.panic,
        opened |-> r.opened]

\* Whether Abort was called on w.
WriterAborted ==
  IF kind = "AbortBuffer" THEN ab.aborted
  ELSE IF kind = "FileBuffer" THEN buffer.aborted
  ELSE df.aborted

\* -------------------------------------------------------------- the App
\* newGithubRelease: Reference is left nil.
newGithubRelease(r) == [nil |-> FALSE, tag |-> r.tag, sha |-> Nil, assets |-> r.assets]

\* githubRelease.Identifier.
Identifier(r) == IF r.sha = Nil THEN "" ELSE r.sha

\* githubRelease.queryReference: ref is what Git.GetRef answers.
queryReference(r, ref) ==
  IF r.tag = Nil THEN [release |-> r, err |-> "No tag name available."]
  ELSE IF ref \notin Shas THEN [release |-> r, err |-> ref]
  ELSE [release |-> [r EXCEPT !.sha = ref], err |-> Nil]

\* githubApp.Query: listing is what ListReleases answers.
githubQuery(a, listing, ref) ==
  IF listing.err # Nil THEN [app |-> a, err |-> listing.err]
  ELSE LET s == [i \in 1..Len(listing.releases) |-> newGithubRelease(listing.releases[i])] IN
       IF Len(s) # 0
       THEN LET q == queryReference(s[1], ref) IN
            [app |-> [a EXCEPT !.isNil = FALSE, !.releases = [s EXCEPT ![1] = q.release]],
             err |-> q.err]
       ELSE [app |-> [a EXCEPT !.isNil = FALSE, !.releases = s], err |-> Nil]

\* githubApp.LatestRelease: app.releases[0] of an empty slice panics.
githubLatestRelease(a) ==
  IF a.isNil THEN [release |-> NilRelease, panic |-> FALSE]
  ELSE IF Len(a.releases) = 0 THEN [release |-> NilRelease, panic |-> TRUE]
  ELSE [release |-> a.releases[1], panic |-> FALSE]

\* App.Query through the interface; a testApp answers qerr, and the call
\* through the nil App of an Updater that was given none panics.
AppQuery(a, listing, ref, qerr) ==
  IF a.type = "githubApp" THEN githubQuery(a, listing, ref)
  ELSE IF a.type = "nilApp" THEN [app |-> a, err |-> "panic"]
  ELSE [app |-> a, err |-> qerr]

\* App.LatestRelease through the interface; a testApp answers latest.
AppLatestRelease(a, latest) ==
  IF a.type = "githubApp" THEN githubLatestRelease(a)
  ELSE IF a.type = "nilApp" THEN [release |-> NilRelease, panic |-> TRUE]
  ELSE [release |-> latest, panic |-> FALSE]

\* ---------------------------------------------------------- the Updater
\* One entry of the log of collaborator calls: the method, the asset it was
\* called for (0: none), the error it returned ("running" while it has not
\* returned) and, for WriterForAsset, whether it returned a writer.
Call(name, i, err, w) == [call |-> name, i |-> i, err |-> err, w |-> w]

\* The log after the call logged last has returned err.
Returned(calls, err) == [calls EXCEPT ![Len(calls)].err = err]

\* The calls a Check that gets past Query and LatestRelease makes.
CheckCalls == <<Call("Query", 0, Nil, FALSE), Call("LatestRelease", 0, Nil, FALSE)>>

\* A Check that goes on to LatestRelease after Query returned an error.
UpdaterCheck_IgnoreQueryError(cur, a, listing, ref, qerr, latest) ==
  LET q == AppQuery(a, listing, ref, qerr)
      l == AppLatestRelease(q.app, latest)
      calls == <<Call("Query", 0, q.err, FALSE), Call("LatestRelease", 0, Nil, FALSE)>> IN
  IF l.panic
  THEN [app |-> q.app, release |-> NilRelease, err |-> "panic", panic |-> TRUE,
        latest |-> NilRelease, calls |-> Returned(calls, "panic")]
  ELSE IF l.release.nil
  THEN [app |-> q.app, release |-> NilRelease, err |-> "No release information was found.",
        panic |-> FALSE, latest |-> l.release, calls |-> calls]
  ELSE IF Identifier(l.release) = cur
  THEN [app |-> q.app, release |-> NilRelease, err |-> Nil, panic |-> FALSE,
        latest |-> l.release, calls |-> calls]
  ELSE [app |-> q.app, release |-> l.release, err |-> Nil, panic |-> FALSE,
        latest |-> l.release, calls |-> calls]

\* A Check that reports the latest release without comparing identifiers.
UpdaterCheck_NoCompare(cur, a, listing, ref, qerr, latest) ==
  LET q == AppQuery(a, listing, ref, qerr) IN
  IF q.err # Nil
  THEN [app |-> q.app, release |-> NilRelease, err |-> q.err, panic |-> (q.err = "panic"),
        latest |-> NilRelease, calls |-> <<Call("Query", 0, q.err, FALSE)>>]
  ELSE LET l == AppLatestRelease(q.app, latest) IN
       IF l.panic
       THEN [app |-> q.app, release |-> NilRelease, err |-> "panic", panic |-> TRUE,
             latest |-> NilRelease, calls |-> Returned(CheckCalls, "panic")]
       ELSE IF l.release.nil
       THEN [app |-> q.app, release |-> NilRelease, err |-> "No release information was found.",
             panic |-> FALSE, latest |-> l.release, calls |-> CheckCalls]
       ELSE [app |-> q.app, release |-> l.release, err |-> Nil, panic |-> FALSE,
             latest |-> l.release, calls |-> CheckCalls]

\* Updater.Check, for an Updater whose CurrentReleaseIdentifier is cur.
UpdaterCheck(cur, a, listing, ref, qerr, latest) ==
  LET q == AppQuery(a, listing, ref, qerr) IN
  IF q.err # Nil
  THEN [app |-> q.app, release |-> NilRelease, err |-> q.err, panic |-> (q.err = "panic"),
        latest |-> NilRelease, calls |-> <<Call("Query", 0, q.err, FALSE)>>]
  ELSE LET l == AppLatestRelease(q.app, latest) IN
       IF l.panic
       THEN [app |-> q.app, release |-> NilRelease, err |-> "panic", panic |-> TRUE,
             latest |-> NilRelease, calls |-> Returned(CheckCalls, "panic")]
       ELSE IF l.release.nil
       THEN [app |-> q.app, release |-> NilRelease, err |-> "No release information was found.",
             panic |-> FALSE, latest |-> l.release, calls |-> CheckCalls]
       ELSE IF Identifier(l.release) = cur
       THEN [app |-> q.app, release |-> NilRelease, err |-> Nil, panic |-> FALSE,
             latest |-> l.release, calls |-> CheckCalls]
       ELSE [app |-> q.app, release |-> l.release, err |-> Nil, panic |-> FALSE,
             latest |-> l.release, calls |-> CheckCalls]

Idle == [pc |-> "idle", release |-> NilRelease, i |-> 0, j |-> 0]

\* What the server inputs of one Query can be, by the type of the App.
ListingInputs == IF app.type = "githubApp" THEN Listings ELSE {ListFailed}
RefInputs == IF app.type = "githubApp" THEN Shas \cup {"refErr"} ELSE {"refErr"}
QueryErrInputs == IF app.type = "testApp" THEN {Nil, "queryErr"} ELSE {Nil}
LatestInputs == IF app.type = "testApp" THEN Releases \cup {NilRelease} ELSE {NilRelease}

\* The bytes all assets of a release serve.
RECURSIVE TotalBytes(_)
TotalBytes(assets) ==
  IF assets = <<>> THEN 0 ELSE Len(Head(assets).body) + TotalBytes(Tail(assets))

\* The outcomes of the one-time open and of the handle's write that can
\* differ for a Write of b on w.
OpenInputs == IF kind = "AbortBuffer" \/ buffer.opener \/ buffer.aborted THEN {TRUE} ELSE BOOLEAN
WriteInputs(b) == IF kind = "AbortBuffer" \/ buffer.aborted THEN {Len(b)} ELSE 0..Len(b)

\* What a call of a writer returns: a count and an error.  cleanup is what
\* the deferred os.Remove of a DelayedFile's Close returned to nobody
\* ("none": the call removes nothing).
Return(op, n, err) ==
  [op |-> op, n |-> n, err |-> err, rel |-> NilRelease, latest |-> NilRelease, calls |-> <<>>,
   cleanup |-> "none"]

\* What UpdateTo returns, or "running" while it has not returned; latest is
\* what App.LatestRelease answered the Check it ran for a nil release.  While
\* an UpdateTo that was given a release runs, rel is that release.
UpdateToReturn(err, calls, latest) ==
  [op |-> "UpdateTo", n |-> 0, err |-> err, rel |-> NilRelease, latest |-> latest, calls |-> calls,
   cleanup |-> "none"]

\* The history after a Write of b that returned err; opened: it opened the
\* file.
Record(b, err, opened) ==
  [bytes |-> IF err = Nil THEN hist.bytes \o b ELSE hist.bytes,
   failed |-> (hist.failed \/ err # Nil),
   opens |-> IF opened THEN hist.opens + 1 ELSE hist.opens]

\* Room for n more bytes within the bound.
Room(n) == Len(Staged) + n <= MaxLen /\ Len(hist.bytes) + n <= MaxLen

\* ---------------------------------------------------------------- Init
Init ==
  /\ kind \in Kinds
  /\ fs \in [Paths -> {Absent, OldFile}]
  /\ fs[TempPath] = Absent
  /\ buffer \in {NewFileBuffer(p) : p \in {NoPath, DestPath, NoDirPath}}
  /\ kind # "FileBuffer" => buffer = NewFileBuffer(NoPath)
  /\ df \in {NewDelayedFile(p) : p \in {DestPath, NoDirPath}}
  /\ kind # "DelayedFile" => df = NewDelayedFile(DestPath)
  /\ ab \in {NewAbortBuffer(s) : s \in Seeds}
  /\ kind # "AbortBuffer" => ab = NewAbortBuffer(<<>>)
  /\ kind = "AbortBuffer" => fs[DestPath] = Absent
  /\ panicked = FALSE
  /\ u = [CurrentReleaseIdentifier |-> "sha1"]
  /\ app \in {[type |-> t, isNil |-> TRUE, releases |-> <<>>] : t \in {"githubApp", "testApp", "nilApp"}}
  /\ upd = Idle
  /\ ret = Return("new", 0, Nil)
  /\ th = ThreadsIdle
  /\ hist = [bytes |-> <<>>, failed |-> FALSE, opens |-> 0]
  /\ respBody = "none"

\* ------------------------------------------------------------- actions

\* The caller calls w.Write(b).
Write ==
  /\ ~panicked /\ upd.pc = "idle"
  /\ \E b \in Chunks, ok \in OpenInputs :
       /\ Room(Len(b))
       /\ \E k \in WriteInputs(b) :
          LET r == WriterWrite(b, ok, k) IN
          /\ ab' = r.ab
          /\ buffer' = r.buffer
          /\ fs' = r.fs
          /\ panicked' = r.panic
          /\ ret' = Return("Write", r.n, r.err)
          /\ hist' = Record(b, r.err, r.opened)
  /\ UNCHANGED <<th, respBody, kind, df, u, app, upd>>

\* An Abort that removes the staging file of a DelayedFile at once.
Abort_RemoveStaging ==
  /\ ~panicked /\ upd.pc = "idle"
  /\ ab' = IF kind = "AbortBuffer" THEN AbortBufferAbort(ab) ELSE ab
  /\ buffer' = IF kind = "FileBuffer" THEN FileBufferAbort(buffer) ELSE buffer
  /\ df' = IF kind = "DelayedFile" THEN DelayedFileAbort(df) ELSE df
  /\ fs' = IF kind = "DelayedFile" THEN osRemove(fs, buffer.Path).fs ELSE fs
  /\ ret' = Return("Abort", 0, Nil)
  /\ UNCHANGED <<th, respBody, kind, panicked, u, app, upd, hist>>

\* The caller calls w.Abort().
Abort ==
  /\ ~panicked /\ upd.pc = "idle"
  /\ ab' = IF kind = "AbortBuffer" THEN AbortBufferAbort(ab) ELSE ab
  /\ buffer' = IF kind = "FileBuffer" THEN FileBufferAbort(buffer) ELSE buffer
  /\ df' = IF kind = "DelayedFile" THEN DelayedFileAbort(df) ELSE df
  /\ ret' = Return("Abort", 0, Nil)
  /\ UNCHANGED <<th, respBody, kind, fs, panicked, u, app, upd, hist>>

\* The caller calls Close() on a FileBuffer or a DelayedFile (a deferred
\* Close also runs while a panic unwinds).
Close ==
  /\ upd.pc = "idle"
  /\ kind # "AbortBuffer"
  /\ IF kind = "FileBuffer"
     THEN LET r == FileBufferClose(buffer) IN
          /\ buffer' = r.buffer
          /\ ret' = Return("Close", 0, r.err)
          /\ UNCHANGED fs
     ELSE \E createOk \in BOOLEAN, c \in CopyCounts :
          LET r == DelayedFileClose(df, buffer, fs, createOk, c) IN
          /\ buffer' = r.buffer
          /\ fs' = r.fs
          /\ ret' = [Return("Close", 0, r.err) EXCEPT !.cleanup = r.removeErr]
  /\ UNCHANGED <<th, respBody, kind, df, ab, panicked, u, app, upd, hist>>

\* The caller calls w.Close() on a DelayedFile whose Close renames.
CloseRename ==
  /\ upd.pc = "idle"
  /\ kind # "AbortBuffer"
  /\ IF kind = "FileBuffer"
     THEN LET r == FileBufferClose(buffer) IN
          /\ buffer' = r.buffer
          /\ ret' = Return("Close", 0, r.err)
          /\ UNCHANGED fs
     ELSE \E renameOk \in BOOLEAN, chmodOk \in BOOLEAN :
          LET r == DelayedFileCloseRename(df, buffer, fs, renameOk, chmodOk) IN
          /\ buffer' = r.buffer
          /\ fs' = r.fs
          /\ ret' = [Return("Close", 0, r.err) EXCEPT !.cleanup = r.removeErr]
  /\ UNCHANGED <<th, respBody, kind, df, ab, panicked, u, app, upd, hist>>

\* Someone else removes the file at the FileBuffer's path, as the tests do
\* with os.Remove(df.buffer.Path).
Unlink ==
  /\ ~panicked /\ upd.pc = "idle"
  /\ kind # "AbortBuffer"
  /\ osRemove(fs, buffer.Path).err = Nil
  /\ fs' = osRemove(fs, buffer.Path).fs
  /\ ret' = Return("Unlink", 0, Nil)
  /\ UNCHANGED <<th, respBody, kind, buffer, df, ab, panicked, u, app, upd, hist>>

\* The caller calls u.Check().
Check ==
  /\ ~panicked /\ upd.pc = "idle"
  /\ \E listing \in ListingInputs, ref \in RefInputs, qerr \in QueryErrInputs, latest \in LatestInputs :
       LET r == UpdaterCheck(u.CurrentReleaseIdentifier, app, listing, ref, qerr, latest) IN
       /\ app' = r.app
       /\ panicked' = r.panic
       /\ ret' = [op |-> "Check", n |-> 0, err |-> r.err, rel |-> r.release,
                  latest |-> r.latest, calls |-> r.calls, cleanup |-> "none"]
  /\ UNCHANGED <<th, respBody, kind, fs, buffer, df, ab, u, upd, hist>>

\* UpdateTo returns err.
UpdateToReturns(err, calls, latest) ==
  /\ upd' = Idle
  /\ ret' = UpdateToReturn(err, calls, latest)

\* An UpdateTo that returns nil when Check reports no update.
UpdateTo_NilWhenUpToDate ==
  /\ ~panicked /\ upd.pc = "idle"
  /\ \E release \in Releases \cup {NilRelease} :
       IF release.nil
       THEN \E listing \in ListingInputs, ref \in RefInputs, qerr \in QueryErrInputs, latest \in LatestInputs :
            LET r == UpdaterCheck(u.CurrentReleaseIdentifier, app, listing, ref, qerr, latest) IN
            /\ IF r.release.nil THEN TRUE ELSE Room(TotalBytes(r.release.assets))
            /\ app' = r.app
            /\ panicked' = r.panic
            /\ IF r.release.nil
               THEN UpdateToReturns(r.err, r.calls, r.latest)
               ELSE /\ upd' = [pc |-> "loop", release |-> r.release, i |-> 1, j |-> 0]
                    /\ ret' = UpdateToReturn("running", r.calls, r.latest)
       ELSE /\ Room(TotalBytes(release.assets))
            /\ upd' = [pc |-> "loop", release |-> release, i |-> 1, j |-> 0]
            /\ ret' = [UpdateToReturn("running", <<>>, NilRelease) EXCEPT !.rel = release]
            /\ UNCHANGED <<app, panicked>>
  /\ respBody' = "none"
  /\ UNCHANGED <<th, kind, fs, buffer, df, ab, u, hist>>

\* An UpdateTo that runs Check for a release it was given as well, and
\* updates to that release only when Check reports an update.
UpdateTo_AlwaysCheck ==
  /\ ~panicked /\ upd.pc = "idle"
  /\ \E release \in Releases \cup {NilRelease} :
       \E listing \in ListingInputs, ref \in RefInputs, qerr \in QueryErrInputs, latest \in LatestInputs :
       LET r == UpdaterCheck(u.CurrentReleaseIdentifier, app, listing, ref, qerr, latest)
           to == IF release.nil THEN r.release ELSE release IN
       /\ IF r.release.nil THEN TRUE ELSE Room(TotalBytes(to.assets))
       /\ app' = r.app
       /\ panicked' = r.panic
       /\ IF r.err # Nil
          THEN UpdateToReturns(r.err, r.calls, r.latest)
          ELSE IF r.release.nil
          THEN UpdateToReturns("The application is already up to date.", r.calls, r.latest)
          ELSE /\ upd' = [pc |-> "loop", release |-> to, i |-> 1, j |-> 0]
               /\ ret' = [UpdateToReturn("running", r.calls, r.latest) EXCEPT !.rel = release]
  /\ respBody' = "none"
  /\ UNCHANGED <<th, kind, fs, buffer, df, ab, u, hist>>

\* The caller calls u.UpdateTo(release): the part before the loop over the
\* assets, which resolves a nil release through Check.
UpdateTo ==
  /\ ~panicked /\ upd.pc = "idle"
  /\ \E release \in Releases \cup {NilRelease} :
       IF release.nil
       THEN \E listing \in ListingInputs, ref \in RefInputs, qerr \in QueryErrInputs, latest \in LatestInputs :
            LET r == UpdaterCheck(u.CurrentReleaseIdentifier, app, listing, ref, qerr, latest) IN
            /\ IF r.release.nil THEN TRUE ELSE Room(TotalBytes(r.release.assets))
            /\ app' = r.app
            /\ panicked' = r.panic
            /\ IF r.err # Nil
               THEN UpdateToReturns(r.err, r.calls, r.latest)
               ELSE IF r.release.nil
               THEN UpdateToReturns("The application is already up to date.", r.calls, r.latest)
               ELSE /\ upd' = [pc |-> "loop", release |-> r.release, i |-> 1, j |-> 0]
                    /\ ret' = UpdateToReturn("running", r.calls, r.latest)
       ELSE /\ Room(TotalBytes(release.assets))
            /\ upd' = [pc |-> "loop", release |-> release, i |-> 1, j |-> 0]
            /\ ret' = [UpdateToReturn("running", <<>>, NilRelease) EXCEPT !.rel = release]
            /\ UNCHANGED <<app, panicked>>
  /\ respBody' = "none"
  /\ UNCHANGED <<th, kind, fs, buffer, df, ab, u, hist>>

\* A loop head that goes on to the next asset when WriterForAsset fails.
UpdateToWriterForAsset_ContinueOnError ==
  /\ upd.pc = "loop"
  /\ IF upd.i > Len(upd.release.assets)
     THEN UpdateToReturns(Nil, ret.calls, ret.latest)
     ELSE \E answer \in {"err", "nil", "w"} :
          LET err == IF answer = "err" THEN "writerForAssetErr" ELSE Nil
              calls == Append(ret.calls, Call("WriterForAsset", upd.i, err, answer = "w")) IN
          /\ upd' = [upd EXCEPT !.pc = IF answer = "w" THEN "write" ELSE "loop",
                                !.i = IF answer = "w" THEN @ ELSE @ + 1]
          /\ ret' = [ret EXCEPT !.calls = calls]
  /\ UNCHANGED <<th, respBody, kind, fs, buffer, df, ab, panicked, u, app, hist>>

\* A loop head that hands a nil writer to the asset's Write.
UpdateToWriterForAsset_WriteToNil ==
  /\ upd.pc = "loop"
  /\ IF upd.i > Len(upd.release.assets)
     THEN UpdateToReturns(Nil, ret.calls, ret.latest)
     ELSE \E answer \in {"err", "nil", "w"} :
          LET err == IF answer = "err" THEN "writerForAssetErr" ELSE Nil
              calls == Append(ret.calls, Call("WriterForAsset", upd.i, err, answer = "w")) IN
          IF err # Nil THEN UpdateToReturns(err, calls, ret.latest)
          ELSE /\ upd' = [upd EXCEPT !.pc = "write"]
               /\ ret' = [ret EXCEPT !.calls = calls]
  /\ UNCHANGED <<th, respBody, kind, fs, buffer, df, ab, panicked, u, app, hist>>

\* A loop that records the release as the current one when it is done.
UpdateToWriterForAsset_RecordsRelease ==
  /\ upd.pc = "loop"
  /\ IF upd.i > Len(upd.release.assets)
     THEN /\ UpdateToReturns(Nil, ret.calls, ret.latest)
          /\ u' = [u EXCEPT !.CurrentReleaseIdentifier = Identifier(upd.release)]
     ELSE /\ \E answer \in {"err", "nil", "w"} :
             LET err == IF answer = "err" THEN "writerForAssetErr" ELSE Nil
                 calls == Append(ret.calls, Call("WriterForAsset", upd.i, err, answer = "w")) IN
             IF err # Nil THEN UpdateToReturns(err, calls, ret.latest)
             ELSE /\ upd' = [upd EXCEPT !.pc = IF answer = "w" THEN "write" ELSE "loop",
                                        !.i = IF answer = "w" THEN @ ELSE @ + 1]
                  /\ ret' = [ret EXCEPT !.calls = calls]
          /\ UNCHANGED u
  /\ UNCHANGED <<th, respBody, kind, fs, buffer, df, ab, panicked, app, hist>>

\* A loop that closes the DelayedFile itself once all assets are written.
UpdateToWriterForAsset_ClosesWriter ==
  /\ upd.pc = "loop"
  /\ IF upd.i > Len(upd.release.assets)
     THEN /\ UpdateToReturns(Nil, ret.calls, ret.latest)
          /\ IF kind = "DelayedFile"
             THEN LET r == DelayedFileClose(df, buffer, fs, TRUE, Len(Staged)) IN
                  buffer' = r.buffer /\ fs' = r.fs
             ELSE UNCHANGED <<fs, buffer>>
     ELSE /\ \E answer \in {"err", "nil", "w"} :
             LET err == IF answer = "err" THEN "writerForAssetErr" ELSE Nil
                 calls == Append(ret.calls, Call("WriterForAsset", upd.i, err, answer = "w")) IN
             IF err # Nil THEN UpdateToReturns(err, calls, ret.latest)
             ELSE /\ upd' = [upd EXCEPT !.pc = IF answer = "w" THEN "write" ELSE "loop",
                                        !.i = IF answer = "w" THEN @ ELSE @ + 1]
                  /\ ret' = [ret EXCEPT !.calls = calls]
          /\ UNCHANGED <<fs, buffer>>
  /\ UNCHANGED <<th, respBody, kind, df, ab, panicked, u, app, hist>>

\* The head of UpdateTo's loop: past the last asset it returns nil; else it
\* calls u.WriterForAsset(a), which answers an error, no writer, or w.
UpdateToWriterForAsset ==
  /\ upd.pc = "loop"
  /\ IF upd.i > Len(upd.release.assets)
     THEN UpdateToReturns(Nil, ret.calls, ret.latest)
     ELSE \E answer \in {"err", "nil", "w"} :
          LET err == IF answer = "err" THEN "writerForAssetErr" ELSE Nil
              calls == Append(ret.calls, Call("WriterForAsset", upd.i, err, answer = "w")) IN
          IF err # Nil THEN UpdateToReturns(err, calls, ret.latest)
          ELSE /\ upd' = [upd EXCEPT !.pc = IF answer = "w" THEN "write" ELSE "loop",
                                     !.i = IF answer = "w" THEN @ ELSE @ + 1]
               /\ ret' = [ret EXCEPT !.calls = calls]
  /\ UNCHANGED <<th, respBody, kind, fs, buffer, df, ab, panicked, u, app, hist>>

\* a.Write(w) up to io.Copy: githubAsset.Write fails without a download URL,
\* when http.Get fails, and on a status other than 200.  A response comes
\* with an open body; the Close of the body is deferred only after the test
\* of the status.
AssetWrite ==
  /\ upd.pc = "write"
  /\ LET a == upd.release.assets[upd.i]
         calls == Append(ret.calls, Call("Write", upd.i, "running", FALSE)) IN
     \E get \in {"getErr", "500", "200"} :
       LET e == IF ~a.url THEN "No download URL available."
                ELSE IF get = "getErr" THEN "getErr"
                ELSE IF get # "200" THEN "Could not download"
                ELSE Nil IN
       /\ respBody' = IF a.url /\ get # "getErr" THEN "open" ELSE "none"
       /\ IF e # Nil THEN UpdateToReturns(e, Returned(calls, e), ret.latest)
          ELSE /\ upd' = [upd EXCEPT !.pc = "copy", !.j = 1]
               /\ ret' = [ret EXCEPT !.calls = calls]
  /\ UNCHANGED <<th, kind, fs, buffer, df, ab, panicked, u, app, hist>>

\* One round of io.Copy(w, resp.Body): a Read of the body, which can fail or
\* end it, then w.Write of what was read; the first error ends a.Write and
\* UpdateTo returns it.  When a.Write ends, by a return or a panic, the
\* deferred resp.Body.Close() runs.
AssetCopy ==
  /\ upd.pc = "copy"
  /\ LET a == upd.release.assets[upd.i] IN
     \E read \in BOOLEAN :
       IF ~read
       THEN /\ UpdateToReturns("readErr", Returned(ret.calls, "readErr"), ret.latest)
            /\ respBody' = "closed"
            /\ UNCHANGED <<fs, buffer, ab, panicked, hist>>
       ELSE IF upd.j > Len(a.body)
       THEN /\ upd' = [upd EXCEPT !.pc = "loop", !.i = @ + 1, !.j = 0]
            /\ ret' = [ret EXCEPT !.calls = Returned(@, Nil)]
            /\ respBody' = "closed"
            /\ UNCHANGED <<fs, buffer, ab, panicked, hist>>
       ELSE \E ok \in OpenInputs, k \in WriteInputs(<<a.body[upd.j]>>) :
            LET r == WriterWrite(<<a.body[upd.j]>>, ok, k) IN
            /\ ab' = r.ab
            /\ buffer' = r.buffer
            /\ fs' = r.fs
            /\ panicked' = r.panic
            /\ hist' = Record(<<a.body[upd.j]>>, r.err, r.opened)
            /\ IF r.err # Nil
               THEN /\ UpdateToReturns(r.err, Returned(ret.calls, r.err), ret.latest)
                    /\ respBody' = "closed"
               ELSE /\ upd' = [upd EXCEPT !.j = @ + 1]
                    /\ UNCHANGED <<ret, respBody>>
  /\ UNCHANGED <<th, kind, df, u, app>>

\* ------------------------------------------- concurrent Write calls
\* The bytes of the Writes goroutines are inside of.
RECURSIVE PendingBytes(_)
PendingBytes(S) ==
  IF S = {} THEN 0
  ELSE LET t == CHOOSE x \in S : TRUE IN Len(th.b[t]) + PendingBytes(S \ {t})

\* Goroutine t calls a.Write(b): the aborted test.
ThreadWrite ==
  /\ kind = "FileBuffer" /\ upd.pc = "idle"
  /\ \E t \in Threads, b \in Chunks :
       /\ th.pc[t] = "idle"
       /\ Room(PendingBytes(Threads) + Len(b))
       /\ IF buffer.aborted
          THEN /\ ret' = Return("Write", 0, "aborted")
               /\ hist' = Record(b, "aborted", FALSE)
               /\ UNCHANGED th
          ELSE /\ th' = [th EXCEPT !.pc[t] = "do", !.b[t] = b]
               /\ UNCHANGED <<ret, hist>>
  /\ UNCHANGED <<respBody, kind, fs, buffer, df, ab, panicked, u, app, upd>>

\* sync.Once.Do, fast path: a done Once returns at once; else the goroutine
\* goes for the mutex.
OnceFast ==
  /\ kind = "FileBuffer"
  /\ \E t \in Threads :
       /\ th.pc[t] = "do"
       /\ th' = [th EXCEPT !.pc[t] = IF buffer.opener THEN "check" ELSE "lock"]
  /\ UNCHANGED <<respBody, kind, fs, buffer, df, ab, panicked, u, app, upd, ret, hist>>

\* sync.Once.Do, slow path: o.m.Lock().
OnceLock ==
  /\ kind = "FileBuffer"
  /\ \E t \in Threads :
       /\ th.pc[t] = "lock" /\ th.mu = Nil
       /\ th' = [th EXCEPT !.pc[t] = "slow", !.mu = t]
  /\ UNCHANGED <<respBody, kind, fs, buffer, df, ab, panicked, u, app, upd, ret, hist>>

\* sync.Once.Do, slow path under the mutex: the function runs if the Once is
\* not done, the Once becomes done and the mutex is released (both deferred,
\* so also when the function panics).
OnceSlow ==
  /\ kind = "FileBuffer"
  /\ \E t \in Threads, ok \in (IF buffer.opener THEN {TRUE} ELSE BOOLEAN) :
       /\ th.pc[t] = "slow" /\ th.mu = t
       /\ LET o == openerDo(buffer, fs, ok) IN
          /\ buffer' = o.buffer
          /\ fs' = o.fs
          /\ hist' = [hist EXCEPT !.opens = IF o.opened THEN @ + 1 ELSE @]
          /\ panicked' = (panicked \/ o.panic)
          /\ th' = [th EXCEPT !.mu = Nil,
                              !.pc[t] = IF o.panic THEN "panic" ELSE "check",
                              !.saw[t] = IF o.panic THEN "panic" ELSE @]
  /\ UNCHANGED <<respBody, kind, df, ab, u, app, upd, ret>>

\* After Do: a goroutine that finds openError set returns it, any other goes
\* on to the handle.
ThreadCheck ==
  /\ kind = "FileBuffer"
  /\ \E t \in Threads :
       /\ th.pc[t] = "check"
       /\ IF buffer.openError # Nil
          THEN /\ th' = [th EXCEPT !.pc[t] = "idle", !.b[t] = <<>>, !.saw[t] = buffer.openError]
               /\ ret' = Return("Write", 0, buffer.openError)
               /\ hist' = Record(th.b[t], buffer.openError, FALSE)
          ELSE /\ th' = [th EXCEPT !.pc[t] = "write",
                                   !.saw[t] = IF buffer.handle = Nil THEN "nil handle" ELSE "handle"]
               /\ UNCHANGED <<ret, hist>>
  /\ UNCHANGED <<respBody, kind, fs, buffer, df, ab, panicked, u, app, upd>>

\* a.handle.Write(b) of goroutine t.
ThreadHandleWrite ==
  /\ kind = "FileBuffer"
  /\ \E t \in Threads :
       /\ th.pc[t] = "write"
       /\ \E k \in 0..Len(th.b[t]) :
          LET w == fileWrite(buffer.handle, fs, buffer.Path, th.b[t], k) IN
          /\ fs' = w.fs
          /\ ret' = Return("Write", w.n, w.err)
          /\ hist' = Record(th.b[t], w.err, FALSE)
          /\ th' = [th EXCEPT !.pc[t] = "idle", !.b[t] = <<>>]
  /\ UNCHANGED <<respBody, kind, buffer, df, ab, panicked, u, app, upd>>

\* The program that drives a writer by hand, as TestFileBuffer,
\* TestDelayedFile and TestAbortBuffer do.
Next ==
  \/ Write
  \/ Abort
  \/ Close
  \/ Unlink

Spec == Init /\ [][Next]_vars

\* The hand-driven writer whose DelayedFile publishes by renaming.
NextRename == Write \/ Abort \/ CloseRename \/ Unlink

SpecRename == Init /\ [][NextRename]_vars

\* The program of the package documentation and of ExampleDelayedFile and
\* ExampleAbortBuffer: the writer is handed to an Updater, which streams the
\* assets into it; the caller checks, updates, aborts and closes.
NextUpdater ==
  \/ Check
  \/ UpdateTo
  \/ UpdateToWriterForAsset
  \/ AssetWrite
  \/ AssetCopy
  \/ Abort
  \/ Close

SpecUpdater == Init /\ [][NextUpdater]_vars

\* The program in which several goroutines share one FileBuffer and call its
\* Write concurrently.
NextConcurrent ==
  \/ ThreadWrite
  \/ OnceFast
  \/ OnceLock
  \/ OnceSlow
  \/ ThreadCheck
  \/ ThreadHandleWrite

SpecConcurrent == Init /\ [][NextConcurrent]_vars

\* ---------------------------------------------------------------- claims
\* The file at the DelayedFile's destination path.
DestOf(files) == IF df.path \in Paths THEN files[df.path] ELSE Absent

\* C1: all-or-nothing publish.  When Close of a DelayedFile that bytes were
\* written to returns, the destination either is what it was before the call,
\* or (Close returned nil and Abort was not called) holds exactly the staged
\* bytes.
C1_AllOrNothing ==
  [][(kind = "DelayedFile" /\ hist.bytes # <<>> /\ ret'.op = "Close")
       => \/ DestOf(fs') = DestOf(fs)
          \/ /\ ret'.err = Nil
             /\ ~df.aborted
             /\ DestOf(fs').exists
             /\ DestOf(fs').data = Staged]_vars

\* C2: staging isolation.  A Write or an Abort of a DelayedFile leaves the
\* destination's existence, contents and mode as they were.
C2_StagingIsolation ==
  [][(kind = "DelayedFile" /\ ret'.op \in {"Write", "Abort"}) => fs'[DestPath] = fs[DestPath]]_vars

\* Bytes are staged through a handle that no Close has closed, and the
\* destination still holds its old bytes.
C2_Witness ==
  /\ kind = "DelayedFile" /\ ret.op = "Write" /\ ret.err = Nil
  /\ buffer.handle = "open" /\ Len(Staged) >= 2
  /\ fs[DestPath] = OldFile

\* C3: a failed download never corrupts the destination.  When UpdateTo has
\* returned a streaming error with bytes of an asset staged in the
\* DelayedFile, the Close that follows leaves the destination as it was.
C3_FailedUpdateKeepsDestination ==
  [][(/\ kind = "DelayedFile" /\ upd.pc = "idle"
      /\ ret.op = "UpdateTo" /\ ret.err = "readErr" /\ Staged # <<>>
      /\ ret'.op = "Close")
       => DestOf(fs') = DestOf(fs)]_vars

\* C4: when Asset.Write returned an error to UpdateTo, Abort was called on the
\* writer before UpdateTo returned that error.
C4_AbortOnWriteError ==
  (/\ ret.op = "UpdateTo" /\ upd.pc = "idle"
   /\ ret.err \notin {Nil, "running", "panic"}
   /\ ret.calls # <<>>
   /\ ret.calls[Len(ret.calls)].call = "Write")
    => WriterAborted

\* C5: abort suppresses publish.  Close of an aborted DelayedFile returns nil,
\* leaves the destination untouched, and no staging file exists after it.
C5_AbortSuppressesPublish ==
  [][(kind = "DelayedFile" /\ df.aborted /\ ret'.op = "Close")
       => /\ ret'.err = Nil
          /\ fs'[DestPath] = fs[DestPath]
          /\ ~fs'[TempPath].exists]_vars

\* Bytes were written, Abort and Close were called, and neither the
\* destination nor the staging file exists.
C5_Witness ==
  /\ kind = "DelayedFile" /\ df.aborted /\ ret.op = "Close" /\ ret.err = Nil
  /\ hist.bytes # <<>> /\ buffer.Path = TempPath
  /\ ~fs[TempPath].exists /\ ~fs[DestPath].exists

\* C6: round trip.  After one or more Writes that all succeeded, a Close
\* without Abort of a DelayedFile whose staging file is in place and whose
\* destination directory exists fails only on an injected fault (the create
\* or the copy); when it returns nil the destination holds exactly the
\* written slices in call order and the staging file is gone.
C6_RoundTrip ==
  [][(/\ kind = "DelayedFile" /\ ret'.op = "Close"
      /\ ~df.aborted /\ df.path = DestPath
      /\ hist.bytes # <<>> /\ ~hist.failed
      /\ buffer.handle = "open" /\ fs[TempPath].exists)
       => /\ ret'.err \in {Nil, "EACCES", "copyError"}
          /\ ret'.err = Nil => /\ fs'[DestPath].exists
                               /\ fs'[DestPath].data = hist.bytes
                               /\ ~fs'[TempPath].exists]_vars

\* Two writes were published over an existing destination.
C6_Witness ==
  /\ kind = "DelayedFile" /\ ret.op = "Close" /\ ret.err = Nil /\ ~df.aborted
  /\ ~hist.failed /\ hist.bytes = <<2, 1>>
  /\ fs[DestPath].exists /\ fs[DestPath].data = <<2, 1>> /\ fs[DestPath].mode = "0755"
  /\ ~fs[TempPath].exists

\* C7: cleanup is unconditional.  After Close of a DelayedFile has returned,
\* whatever it returned, the staging file it wrote to does not exist.
C7_CleanupUnconditional ==
  (kind = "DelayedFile" /\ ret.op = "Close" /\ buffer.Path \in Paths) => ~fs[buffer.Path].exists

\* A Close whose copy failed, with a staging file that had been created.
C7_Witness ==
  /\ kind = "DelayedFile" /\ ret.op = "Close" /\ ret.err = "copyError"
  /\ buffer.Path = TempPath /\ ~fs[TempPath].exists

\* C8 as stated: on every kind of writer a Write after Abort fails with the
\* aborted error and leaves the bytes as they were.
C8_AbortBlocksWrites ==
  [][(WriterAborted /\ ret'.op = "Write")
       => (ret'.err = "aborted" /\ ret'.n = 0 /\ Staged' = Staged)]_vars

\* C8 amended: on an AbortBuffer and on a FileBuffer a Write after Abort fails
\* with the aborted error and leaves the bytes as they were.
C8_AbortBlocksBufferWrites ==
  [][(kind \in {"AbortBuffer", "FileBuffer"} /\ WriterAborted /\ ret'.op = "Write")
       => (ret'.err = "aborted" /\ ret'.n = 0 /\ Staged' = Staged)]_vars

\* A FileBuffer that holds bytes refused a Write after Abort.
C8_Witness ==
  /\ kind = "FileBuffer" /\ buffer.aborted /\ ret.op = "Write" /\ ret.err = "aborted"
  /\ Staged # <<>> /\ Staged = hist.bytes

\* C9: the aborted flag is one-way and Abort is idempotent.  No step resets
\* the flag of an aborted writer, and an Abort of an aborted writer changes
\* nothing of the writer or the filesystem.
C9_AbortOneWay ==
  [][/\ WriterAborted => WriterAborted'
     /\ (WriterAborted /\ ret'.op = "Abort") => UNCHANGED <<kind, fs, buffer, df, ab, panicked, hist>>]_vars

\* An aborted DelayedFile is still aborted after its Close.
C9_Witness ==
  kind = "DelayedFile" /\ df.aborted /\ ret.op = "Close" /\ hist.bytes # <<>>

\* C10: update decision.  A Check whose Query succeeded and whose
\* LatestRelease answered r returns (nil, nil) when r's identifier is the
\* current one and (r, nil) otherwise; it calls Query and LatestRelease only
\* and leaves the writer and the filesystem alone.
C10_UpdateDecision ==
  [][(ret'.op = "Check" /\ ~ret'.latest.nil)
       => /\ ret'.err = Nil
          /\ ret'.rel = IF Identifier(ret'.latest) = u.CurrentReleaseIdentifier
                        THEN NilRelease ELSE ret'.latest
          /\ ret'.calls = CheckCalls
          /\ UNCHANGED <<kind, fs, buffer, df, ab, hist, u>>]_vars

\* A Check that found the latest release to be the current one.
C10_Witness ==
  /\ ret.op = "Check" /\ ~ret.latest.nil /\ ret.err = Nil /\ ret.rel = NilRelease
  /\ Identifier(ret.latest) = u.CurrentReleaseIdentifier

\* C11: Check error outcomes.  When Query returned an error, Check returns a
\* nil release and that error and has called nothing after Query; when Query
\* succeeded and LatestRelease answered nil, Check returns a nil release and
\* the "No release information" error.
C11_CheckErrors ==
  [][ret'.op = "Check"
       => /\ ret'.calls[1].call = "Query"
          /\ ret'.calls[1].err # Nil
               => /\ ret'.err = ret'.calls[1].err
                  /\ ret'.rel = NilRelease
                  /\ Len(ret'.calls) = 1
          /\ (ret'.calls = CheckCalls /\ ret'.latest.nil)
               => /\ ret'.rel = NilRelease
                  /\ ret'.err = "No release information was found."]_vars

\* A Check of a GitHub application whose Query failed to resolve the tag
\* reference of the newest release.
C11_Witness ==
  /\ ret.op = "Check" /\ app.type = "githubApp" /\ ~app.isNil
  /\ Len(ret.calls) = 1 /\ ret.err = "refErr" /\ ret.rel = NilRelease

\* The WriterForAsset and Asset.Write entries of a call log, in call order.
AssetCalls(calls) == SelectSeq(calls, LAMBDA c : c.call \in {"WriterForAsset", "Write"})

\* C12: update sequence and first-failure propagation.  The log of an UpdateTo
\* starts with WriterForAsset of asset 1; after WriterForAsset of asset i that
\* gave a writer comes Write of asset i, after any other call that returned
\* comes WriterForAsset of asset i + 1; only the call logged last has failed;
\* UpdateTo returns the error of that call, and returns nil only from the
\* loop head past the last asset with no failed call.
C12_UpdateSequence ==
  [][ret'.op = "UpdateTo"
       => LET cs == AssetCalls(ret'.calls)
              n == Len(cs) IN
          /\ n > 0 => (cs[1].call = "WriterForAsset" /\ cs[1].i = 1)
          /\ \A k \in 1..(n - 1) :
               /\ cs[k].err = Nil
               /\ IF cs[k].call = "WriterForAsset" /\ cs[k].w
                  THEN cs[k + 1].call = "Write" /\ cs[k + 1].i = cs[k].i
                  ELSE cs[k + 1].call = "WriterForAsset" /\ cs[k + 1].i = cs[k].i + 1
          /\ (n > 0 /\ upd'.pc # "idle") => cs[n].err \in {Nil, "running"}
          /\ (n > 0 /\ upd'.pc = "idle" /\ cs[n].err # Nil) => ret'.err = cs[n].err
          /\ ret'.err = Nil
               => /\ upd.pc = "loop" /\ upd.i > Len(upd.release.assets)
                  /\ n > 0 => (cs[n].err = Nil /\ cs[n].i = Len(upd.release.assets))
                  /\ n = 0 => upd.release.assets = <<>>]_vars

\* UpdateTo streamed the first asset and returned the download error of the
\* second.
C12_Witness ==
  /\ ret.op = "UpdateTo" /\ upd.pc = "idle" /\ ret.err = "getErr"
  /\ Len(AssetCalls(ret.calls)) = 4
  /\ ret.calls[Len(ret.calls)] = Call("Write", 2, "getErr", FALSE)
  /\ hist.bytes = AssetBody(1)

\* C13: skipping an asset.  When WriterForAsset returned no writer and no
\* error for asset i, UpdateTo goes on to asset i + 1 without touching a
\* writer; Write is only ever called for an asset whose WriterForAsset gave a
\* writer; and an UpdateTo whose last call was a skip returns nil.
C13_SkipNilWriter ==
  [][ret'.op = "UpdateTo"
       => LET cs == ret'.calls
              n == Len(cs) IN
          /\ \A k \in 1..n :
               cs[k].call = "Write"
                 => /\ k > 1
                    /\ cs[k - 1] = Call("WriterForAsset", cs[k].i, Nil, TRUE)
          /\ (/\ upd.pc = "loop" /\ n = Len(ret.calls) + 1
              /\ cs[n] = Call("WriterForAsset", upd.i, Nil, FALSE))
               => /\ upd' = [upd EXCEPT !.i = @ + 1]
                  /\ ret'.err = "running"
                  /\ UNCHANGED <<fs, buffer, df, ab, hist>>
          /\ (/\ upd'.pc = "idle" /\ n > 0
              /\ cs[n].call = "WriterForAsset" /\ cs[n].err = Nil /\ ~cs[n].w)
               => ret'.err = Nil]_vars

\* UpdateTo skipped the first asset, streamed the second and returned nil.
C13_Witness ==
  /\ ret.op = "UpdateTo" /\ upd.pc = "idle" /\ ret.err = Nil
  /\ ret.calls = <<Call("WriterForAsset", 1, Nil, FALSE),
                   Call("WriterForAsset", 2, Nil, TRUE),
                   Call("Write", 2, Nil, FALSE)>>
  /\ hist.bytes = AssetBody(2)

\* C14: UpdateTo(nil) resolves the target through Check.  It returns the
\* error of a failed Check; when the latest release is the current one it
\* returns the "already up to date" error having called Query and
\* LatestRelease only; else it starts to stream the release LatestRelease
\* answered; and a release without assets makes it return nil with no call
\* added.
C14_UpdateToNil ==
  [][ret'.op = "UpdateTo"
       => /\ (upd.pc = "idle" /\ ret'.calls # <<>>)
               => LET cs == ret'.calls IN
                  /\ cs[1].call = "Query"
                  /\ cs[1].err # Nil => (ret'.err = cs[1].err /\ Len(cs) = 1 /\ upd' = Idle)
                  /\ (cs = CheckCalls /\ ret'.latest.nil)
                       => (ret'.err = "No release information was found." /\ upd' = Idle)
                  /\ ~ret'.latest.nil
                       => /\ cs = CheckCalls
                          /\ IF Identifier(ret'.latest) = u.CurrentReleaseIdentifier
                             THEN /\ ret'.err = "The application is already up to date."
                                  /\ upd' = Idle
                             ELSE /\ ret'.err = "running"
                                  /\ upd' = [pc |-> "loop", release |-> ret'.latest, i |-> 1, j |-> 0]
                  /\ UNCHANGED <<fs, buffer, df, ab, hist>>
          /\ (upd.pc = "loop" /\ upd.release.assets = <<>>)
               => (ret'.err = Nil /\ ret'.calls = ret.calls /\ upd' = Idle)]_vars

\* UpdateTo(nil) found the latest release to be the current one.
C14_Witness ==
  /\ ret.op = "UpdateTo" /\ upd.pc = "idle" /\ ret.calls = CheckCalls
  /\ ~ret.latest.nil /\ Identifier(ret.latest) = u.CurrentReleaseIdentifier
  /\ ret.err = "The application is already up to date."

\* C15: at-most-once open.  A Write of a FileBuffer that was not aborted
\* leaves the file opened exactly once, by the first Write; a Write after the
\* first opens nothing and leaves openError as it is; and when the open
\* failed the Write (the first included) returns openError and count 0.
C15_OpenOnce ==
  [][(kind = "FileBuffer" /\ ~buffer.aborted /\ ret'.op = "Write")
       => /\ hist'.opens = 1
          /\ buffer.opener => (hist'.opens = hist.opens /\ buffer'.openError = buffer.openError)
          /\ buffer'.openError # Nil => (ret'.err = buffer'.openError /\ ret'.n = 0)]_vars

\* C16: exactly-once open under concurrency.  While goroutines call Write on
\* one FileBuffer concurrently, the file was opened at most once, a goroutine
\* past Do finds the Once done, one at the handle's Write finds the opened
\* handle, and all goroutines went on with the same outcome of the open: the
\* handle, or the same captured error.
C16_OpenOnceConcurrent ==
  kind = "FileBuffer"
    => /\ hist.opens <= 1
       /\ \A t \in Threads : th.pc[t] \in {"check", "write"} => (buffer.opener /\ hist.opens = 1)
       /\ \A t \in Threads : th.pc[t] = "write" => buffer.handle = "open"
       /\ \A t1, t2 \in Threads :
            (th.saw[t1] # "none" /\ th.saw[t2] # "none")
              => (th.saw[t1] = th.saw[t2] /\ th.saw[t1] \in {"handle", buffer.openError})

\* C17: Close of a FileBuffer without a handle (never written, or the open
\* failed) returns nil and changes neither the filesystem nor the
\* FileBuffer; a file comes to exist only in the first Write.
C17_CloseWithoutHandle ==
  [][kind = "FileBuffer"
       => /\ (ret'.op = "Close" /\ buffer.handle = Nil)
               => (ret'.err = Nil /\ fs' = fs /\ buffer' = buffer)
          /\ (\E p \in Paths : ~fs[p].exists /\ fs'[p].exists)
               => (ret'.op = "Write" /\ ~buffer.opener /\ buffer'.opener)]_vars

\* Close after a Write whose open of the destination failed: no file.
C17_Witness ==
  /\ kind = "FileBuffer" /\ ret.op = "Close" /\ ret.err = Nil
  /\ buffer.opener /\ buffer.openError = "EACCES" /\ buffer.handle = Nil
  /\ buffer.Path = DestPath /\ ~fs[DestPath].exists

\* C18 as stated: a second Close of a FileBuffer returns nil and changes
\* neither the file nor the FileBuffer.
C18_SecondCloseNil ==
  [][(kind = "FileBuffer" /\ buffer.handle = "closed" /\ ret'.op = "Close")
       => (ret'.err = Nil /\ fs' = fs /\ buffer' = buffer)]_vars

\* C18 amended: a second Close of a FileBuffer returns the error of closing
\* a closed handle and changes neither the file nor the FileBuffer.
C18_SecondCloseFails ==
  [][(kind = "FileBuffer" /\ buffer.handle = "closed" /\ ret'.op = "Close")
       => (ret'.err = "EBADF" /\ fs' = fs /\ buffer' = buffer)]_vars

\* A FileBuffer that holds bytes was closed twice.
C18_Witness ==
  /\ kind = "FileBuffer" /\ ret.op = "Close" /\ ret.err = "EBADF"
  /\ buffer.handle = "closed" /\ Staged # <<>> /\ Staged = hist.bytes

\* C19: closed is terminal for publish.  A Close of a DelayedFile that
\* directly follows a Close which published the staged bytes leaves the
\* destination's existence, contents and mode as the first Close left them.
C19_SecondCloseKeepsDestination ==
  [][(/\ kind = "DelayedFile" /\ ret.op = "Close" /\ ret.err = Nil /\ ~df.aborted
      /\ DestOf(fs).exists /\ DestOf(fs).data = hist.bytes /\ hist.bytes # <<>>
      /\ ret'.op = "Close")
       => DestOf(fs') = DestOf(fs)]_vars

\* C20: permission preservation.  After a Close without Abort that returned
\* nil, a destination that existed keeps its mode, and one that did not
\* exist has the mode os.Create gives a new file, not the staging file's.
C20_ModePreserved ==
  [][(kind = "DelayedFile" /\ ret'.op = "Close" /\ ~df.aborted /\ ret'.err = Nil)
       => /\ DestOf(fs').exists
          /\ DestOf(fs').mode = IF DestOf(fs).exists THEN DestOf(fs).mode ELSE "0666"]_vars

\* New bytes were published over a destination of mode 0755.
C20_Witness ==
  /\ kind = "DelayedFile" /\ ret.op = "Close" /\ ret.err = Nil /\ ~df.aborted
  /\ fs[DestPath].exists /\ fs[DestPath].mode = "0755" /\ fs[DestPath].data = <<1, 2>>

\* The staging file of the FileBuffer buf exists.
StagingExists(files, buf) == buf.Path \in Paths /\ files[buf.Path].exists

\* C21: Close reports the first failure verbatim and stops.  A Close of a
\* DelayedFile that was not aborted returns the error of the first failing
\* step among creating the destination, opening the staging file and the
\* copy, runs no later publish step after it, and returns nil only when the
\* complete staged bytes were copied.
C21_FirstFailureVerbatim ==
  [][(kind = "DelayedFile" /\ ~df.aborted /\ ret'.op = "Close")
       => IF df.path \notin Paths
          THEN ret'.err = "ENOENT" /\ DestOf(fs') = DestOf(fs)
          ELSE IF ret'.err = "EACCES"
          THEN DestOf(fs') = DestOf(fs)
          ELSE IF ~StagingExists(fs, buffer)
          THEN /\ ret'.err = "ENOENT"
               /\ DestOf(fs').exists /\ DestOf(fs').data = <<>>
          ELSE /\ ret'.err \in {Nil, "copyError"}
               /\ DestOf(fs').exists
               /\ Len(DestOf(fs').data) <= Len(Staged)
               /\ DestOf(fs').data = SubSeq(Staged, 1, Len(DestOf(fs').data))
               /\ (ret'.err = Nil) <=> (DestOf(fs').data = Staged)]_vars

\* A copy failed after one of two staged bytes: Close returned the copier's
\* error and the destination holds that one byte.
C21_Witness ==
  /\ kind = "DelayedFile" /\ ~df.aborted /\ ret.op = "Close" /\ ret.err = "copyError"
  /\ hist.bytes = <<1, 2>> /\ DestOf(fs).exists /\ DestOf(fs).data = <<1>>

\* C22: best-effort cleanup.  Every Close of a DelayedFile runs os.Remove on
\* the staging path, after a failed step as well, and what the removal
\* returns never changes what Close returns: a Close whose removal failed
\* returns nil when aborted, and otherwise the error of the publish step
\* that failed (the create's when a destination that was not an empty file
\* was left untouched).
C22_BestEffortCleanup ==
  [][(kind = "DelayedFile" /\ ret'.op = "Close")
       => /\ ret'.cleanup = IF StagingExists(fs, buffer) THEN Nil ELSE "ENOENT"
          /\ ~StagingExists(fs', buffer')
          /\ ret'.cleanup # Nil
               => IF df.aborted THEN ret'.err = Nil
                  ELSE /\ ret'.err \in {"ENOENT", "EACCES"}
                       /\ (/\ df.path \in Paths /\ DestOf(fs') = DestOf(fs)
                           /\ ~(DestOf(fs).exists /\ DestOf(fs).data = <<>>))
                            => ret'.err = "EACCES"]_vars

\* Creating the destination failed and then the removal of a staging file
\* that was never created failed: Close returned the create's error.
C22_Witness ==
  /\ kind = "DelayedFile" /\ ~df.aborted /\ ret.op = "Close"
  /\ ret.err = "EACCES" /\ ret.cleanup = "ENOENT" /\ ~buffer.opener

\* C23: AbortBuffer contents.  The buffer holds the seed it was made with
\* followed by the bytes of the Writes before the first Abort, in order: a
\* Write before the Abort appends its bytes and returns their count and nil,
\* a Write after it returns 0 and an error and leaves the buffer alone, and
\* Abort itself leaves the contents alone.
C23_AbortBufferContents ==
  [][kind = "AbortBuffer"
       => /\ \E s \in Seeds : ab'.Buffer = s \o hist'.bytes
          /\ (ret'.op = "Write" /\ ~ab.aborted)
               => /\ ret'.err = Nil /\ ret'.n > 0
                  /\ ret'.n = Len(hist'.bytes) - Len(hist.bytes)
                  /\ SubSeq(hist'.bytes, 1, Len(hist.bytes)) = hist.bytes
                  /\ ab'.Buffer = ab.Buffer
                       \o SubSeq(hist'.bytes, Len(hist.bytes) + 1, Len(hist'.bytes))
          /\ (ret'.op = "Write" /\ ab.aborted)
               => /\ ret'.n = 0 /\ ret'.err # Nil
                  /\ ab' = ab /\ hist'.bytes = hist.bytes
          /\ ret'.op = "Abort" => ab'.Buffer = ab.Buffer]_vars

\* A buffer seeded with one byte took one more, was aborted and refused a
\* Write.
C23_Witness ==
  /\ kind = "AbortBuffer" /\ ab.aborted /\ ret.op = "Write" /\ ret.err = "aborted"
  /\ ret.n = 0 /\ ab.Buffer = <<0, 1>> /\ hist.bytes = <<1>>

\* The bytes new holds after those of old.
Appended(old, new) == SubSeq(new, Len(old) + 1, Len(new))

\* C24 as stated: FileBuffer contents.  After Writes that all succeeded, the
\* first included, the file at Path holds after any further Write exactly
\* the concatenation of the successfully written slices.
C24_FileHoldsSuccessfulSlices ==
  [][(/\ kind = "FileBuffer" /\ hist.bytes # <<>> /\ ~hist.failed
      /\ StagingExists(fs, buffer) /\ Staged = hist.bytes
      /\ ret'.op = "Write")
       => fs'[buffer'.Path].data = hist'.bytes]_vars

\* C24 amended: once a Write has opened the file, Path is non-empty and
\* never changes again; the Write that opens the file discards what the
\* path held; and every Write appends to the file exactly the bytes it
\* reports written: its whole slice when it returns nil, and the first n
\* bytes of a slice when it fails after n bytes.
C24_FileHoldsReportedBytes ==
  [][kind = "FileBuffer"
       => /\ buffer.handle # Nil
               => buffer'.Path = buffer.Path /\ buffer.Path \in Paths
          /\ (ret'.op = "Write" /\ (buffer.handle # Nil => StagingExists(fs, buffer))
              /\ buffer'.handle # Nil)
               => LET old == IF buffer.handle = Nil THEN <<>> ELSE Staged
                      new == fs'[buffer'.Path].data
                  IN /\ fs'[buffer'.Path].exists
                     /\ Len(new) = Len(old) + ret'.n
                     /\ SubSeq(new, 1, Len(old)) = old
                     /\ ret'.err = Nil
                          => /\ hist'.bytes = hist.bytes \o Appended(old, new)
                             /\ ret'.n > 0
                     /\ ret'.err # Nil
                          => /\ hist'.bytes = hist.bytes
                             /\ \E c \in Chunks : /\ ret'.n < Len(c)
                                                  /\ Appended(old, new) = SubSeq(c, 1, ret'.n)]_vars

\* A Write of one byte succeeded and a Write of two bytes failed after its
\* first byte: the file holds two bytes, one of a slice that was not
\* successfully written.
C24_Witness ==
  /\ kind = "FileBuffer" /\ ret.op = "Write" /\ ret.err = "EIO" /\ ret.n = 1
  /\ hist.bytes = <<1>> /\ StagingExists(fs, buffer) /\ Staged = <<1, 1>>

\* C25: no abort-gating on DelayedFile.Write.  A Write on an aborted
\* DelayedFile is forwarded to the staging file as before the Abort: it does
\* not fail for being aborted, the staging file grows by the bytes it
\* reports, and a Write that returns nil took its whole slice; neither that
\* Write nor the Close of the aborted DelayedFile changes the destination.
C25_WriteAfterAbortStaged ==
  [][(kind = "DelayedFile" /\ df.aborted)
       => /\ ret'.op = "Write"
               => /\ ret'.err # "aborted"
                  /\ DestOf(fs') = DestOf(fs)
                  /\ StagingExists(fs', buffer')
                       => /\ Len(Staged') = Len(Staged) + ret'.n
                          /\ SubSeq(Staged', 1, Len(Staged)) = Staged
                  /\ ret'.err = Nil
                       => /\ ret'.n > 0
                          /\ hist'.bytes = hist.bytes \o Appended(hist.bytes, hist'.bytes)
                          /\ ret'.n = Len(hist'.bytes) - Len(hist.bytes)
          /\ ret'.op = "Close"
               => ret'.err = Nil /\ DestOf(fs') = DestOf(fs)]_vars

\* An aborted DelayedFile accepted a Write of one byte after a byte staged
\* earlier.
C25_Witness ==
  /\ kind = "DelayedFile" /\ df.aborted /\ ret.op = "Write" /\ ret.err = Nil
  /\ ret.n = 1 /\ Staged = <<1, 2>> /\ hist.bytes = <<1, 2>>

\* C26: Abort is purely cooperative and does no I/O.  An Abort of a
\* DelayedFile sets the aborted flag and changes nothing else: not the
\* files, not the staging FileBuffer, not what was written.
C26_AbortOnlySetsFlag ==
  [][(kind = "DelayedFile" /\ ret'.op = "Abort")
       => /\ df' = [df EXCEPT !.aborted = TRUE]
          /\ fs' = fs /\ buffer' = buffer /\ hist' = hist
          /\ UNCHANGED <<ab, panicked>>]_vars

\* An Abort after the Close that published two bytes: the destination still
\* holds them.
C26_Witness ==
  /\ kind = "DelayedFile" /\ ret.op = "Abort" /\ df.aborted
  /\ buffer.handle = "closed" /\ ~StagingExists(fs, buffer)
  /\ DestOf(fs).exists /\ DestOf(fs).data = <<1, 2>> /\ hist.bytes = <<1, 2>>

\* C27: permission-restore failure.  When Close has put the staged bytes at
\* the destination and re-applying the mode the destination had fails, Close
\* returns that failure, the destination holds the complete new bytes, and
\* the staging file is gone.
C27_ChmodFailureAfterPublish ==
  [][(kind = "DelayedFile" /\ ret'.op = "Close" /\ ret'.err = "EPERM")
       => /\ ~df.aborted /\ DestOf(fs).exists /\ StagingExists(fs, buffer)
          /\ DestOf(fs').exists /\ DestOf(fs').data = Staged
          /\ ~StagingExists(fs', buffer')]_vars

\* Two bytes replaced the old destination and restoring its mode failed.
C27_Witness ==
  /\ kind = "DelayedFile" /\ ret.op = "Close" /\ ret.err = "EPERM"
  /\ hist.bytes = <<1, 2>> /\ DestOf(fs).exists /\ DestOf(fs).data = <<1, 2>>
  /\ DestOf(fs).mode = "0600" /\ ~StagingExists(fs, buffer)

\* C28: UpdateTo with an explicit release.  An UpdateTo that is given a
\* release starts the loop over that release's assets at once: it calls
\* neither App.Query nor App.LatestRelease, before or during the loop, does
\* not touch the App (the Updater may have none), and does not compare the
\* release's identifier with CurrentReleaseIdentifier.
C28_ExplicitReleaseSkipsCheck ==
  [][/\ (upd.pc = "idle" /\ ret'.op = "UpdateTo" /\ ~ret'.rel.nil)
          => /\ ret'.calls = <<>> /\ ret'.err = "running"
             /\ app' = app /\ ~panicked'
             /\ upd' = [pc |-> "loop", release |-> ret'.rel, i |-> 1, j |-> 0]
     /\ (upd.pc # "idle" /\ ~ret.rel.nil)
          => /\ app' = app
             /\ upd'.pc # "idle" => (ret'.rel = ret.rel /\ upd'.release = ret.rel)
             /\ \A k \in 1..Len(ret'.calls) :
                  ret'.calls[k].call \notin {"Query", "LatestRelease"}]_vars

\* An Updater without an App streams a byte of the release it was given,
\* whose identifier is the current one.
C28_Witness ==
  /\ ret.op = "UpdateTo" /\ ~ret.rel.nil /\ app.type = "nilApp"
  /\ Identifier(ret.rel) = u.CurrentReleaseIdentifier
  /\ upd.pc = "copy" /\ upd.j = 1 /\ hist.bytes # <<>>
  /\ ret.calls[1].call = "WriterForAsset"

\* C29: githubAsset.Write failures before streaming.  When a.Write returns
\* before io.Copy (no download URL, http.Get failed, status other than 200)
\* it returns an error, the writer received no byte, and the body of a
\* response that arrived is not left open.
C29_PreStreamFailures ==
  [][(upd.pc = "write" /\ upd'.pc = "idle")
       => /\ ret'.err \in {"No download URL available.", "getErr", "Could not download"}
          /\ ret'.calls[Len(ret'.calls)] = Call("Write", upd.i, ret'.err, FALSE)
          /\ UNCHANGED <<fs, buffer, ab, hist>>
          /\ respBody' # "open"]_vars

\* C30: Close with nothing staged.  A Close of a DelayedFile that never
\* received a Write and was not aborted leaves the destination's existence,
\* contents and mode unchanged.
C30_CloseWithoutWriteKeepsDestination ==
  [][(/\ kind = "DelayedFile" /\ ~buffer.opener /\ hist.opens = 0 /\ ~hist.failed
      /\ ~df.aborted /\ ret'.op = "Close")
       => DestOf(fs') = DestOf(fs)]_vars

\* C31: no staging after close.  A Write that directly follows a Close of a
\* DelayedFile fails and creates no file: no staging file exists after it,
\* also when no Write preceded the Close and the one-time open has not run.
C31_WriteAfterCloseFails ==
  [][(kind = "DelayedFile" /\ ret.op = "Close" /\ ret'.op = "Write")
       => (ret'.err # Nil /\ ~StagingExists(fs', buffer') /\ fs' = fs)]_vars

\* C32: UpdateTo never modifies the Updater.  No step of Check or UpdateTo,
\* successful or not, changes CurrentReleaseIdentifier, so a Check that
\* directly follows an UpdateTo(nil) that returned nil, and whose App still
\* reports the same latest release, returns that release again as an update.
C32_UpdaterUnchanged ==
  [][/\ u' = u
     /\ (/\ ret.op = "UpdateTo" /\ upd.pc = "idle" /\ ret.err = Nil /\ ~ret.latest.nil
         /\ ret'.op = "Check" /\ ret'.latest = ret.latest)
          => (ret'.err = Nil /\ ret'.rel = ret.latest)]_vars

\* After the bytes of a release's assets were streamed, Check reports that
\* release, whose identifier is not the current one, as an update.
C32_Witness ==
  /\ ret.op = "Check" /\ ret.err = Nil /\ ~ret.rel.nil /\ ret.rel = ret.latest
  /\ Identifier(ret.rel) # u.CurrentReleaseIdentifier
  /\ respBody = "closed" /\ ~hist.failed /\ hist.bytes # <<>>
  /\ Len(hist.bytes) = TotalBytes(ret.rel.assets)

\* C33: githubApp.LatestRelease returns nil or the first known release.
\* Whenever Check calls LatestRelease on a githubApp the call returns, without
\* a panic, nil when no release is known and else the first known release.
C33_LatestReleaseNilOrFirst ==
  [][(/\ app.type = "githubApp" /\ upd.pc = "idle" /\ ret'.op \in {"Check", "UpdateTo"}
      /\ Len(ret'.calls) >= 2 /\ ret'.calls[2].call = "LatestRelease")
       => /\ ~panicked'
          /\ ret'.latest = IF app'.releases = <<>> THEN NilRelease ELSE app'.releases[1]]_vars

\* C34: a failed Query leaves the known releases unchanged.  When
\* githubApp.Query returns an error, LatestRelease answers after the call
\* what it answered before it, and the latest release it exposes has a
\* resolved identifier.
C34_FailedQueryKeepsReleases ==
  [][(/\ app.type = "githubApp" /\ upd.pc = "idle" /\ ret'.op \in {"Check", "UpdateTo"}
      /\ Len(ret'.calls) >= 1 /\ ret'.calls[1].call = "Query" /\ ret'.calls[1].err # Nil)
       => /\ githubLatestRelease(app') = githubLatestRelease(app)
          /\ ~githubLatestRelease(app').release.nil
               => Identifier(githubLatestRelease(app').release) # ""]_vars

\* The bytes of the assets whose Write the log says returned nil, in the
\* order of the calls.
RECURSIVE StreamedBy(_)
StreamedBy(calls) ==
  IF calls = <<>> THEN <<>>
  ELSE IF Head(calls).call = "Write" /\ Head(calls).err = Nil
  THEN AssetBody(Head(calls).i) \o StreamedBy(Tail(calls))
  ELSE StreamedBy(Tail(calls))

\* C35: shared writer across assets.  With one DelayedFile or AbortBuffer as
\* the writer of every asset, an UpdateTo that returns nil has appended to
\* the writer the bytes of all assets it wrote, in Assets() order; no step
\* of UpdateTo changes the destination, which changes only in a Close.
C35_SharedWriterConcatenates ==
  [][kind # "FileBuffer"
       => /\ (upd.pc # "idle" /\ upd'.pc = "idle" /\ ret'.err = Nil)
               => LET e == StreamedBy(ret'.calls) IN
                  /\ Len(Staged') >= Len(e)
                  /\ SubSeq(Staged', Len(Staged') - Len(e) + 1, Len(Staged')) = e
                  /\ \A k \in 1..Len(ret'.calls) :
                       (ret'.calls[k].call = "WriterForAsset" /\ ret'.calls[k].w)
                         => /\ k < Len(ret'.calls)
                            /\ ret'.calls[k + 1] = Call("Write", ret'.calls[k].i, Nil, FALSE)
          /\ (upd.pc # "idle" \/ ret'.op = "UpdateTo") => DestOf(fs') = DestOf(fs)
          /\ DestOf(fs') # DestOf(fs) => ret'.op = "Close"]_vars

\* An UpdateTo returned nil after it wrote both assets of a release to one
\* DelayedFile: the staging file holds their bytes in order and the old
\* destination is as it was.
C35_Witness ==
  /\ kind = "DelayedFile" /\ ret.op = "UpdateTo" /\ upd.pc = "idle" /\ ret.err = Nil
  /\ Len(ret.calls) >= 4 /\ StreamedBy(ret.calls) = AssetBody(1) \o AssetBody(2)
  /\ Staged = AssetBody(1) \o AssetBody(2) /\ DestOf(fs) = OldFile

====
